---- MODULE Spec2Model ----
(***************************************************************************)
(* Vigenere cipher engine of src/index.js: the constructor, its two        *)
(* validators and the encode/decode transform, as a state machine over     *)
(* one caller-owned options record and one engine built from it.           *)
(***************************************************************************)
EXTENDS Integers, Sequences, FiniteSets, TLC

VARIABLES
    given,        \* the options record as the caller first wrote it
    options,      \* the caller's options record; the engine holds it by reference
    custom,       \* characterTypes.custom, read from options.characters at line 22
    secretValue,  \* secret.value of line 12, assigned at line 39
    engine,       \* "none" before new Vigenere(options), then "built" or "threw"
    ctorError,    \* what the constructor threw
    built,        \* the configuration in force when the constructor returned
    argMessage,   \* the message argument the caller passes to encode/decode
    argSecret,    \* the secret argument the caller passes (undefined: left out)
    last,         \* the latest encode/decode call: arguments, configuration read, outcome
    mutations     \* how many times the caller rewrote a field of options afterwards

vars ==
    <<given, options, custom, secretValue, engine, ctorError, built, argMessage,
      argSecret, last, mutations>>

----------------------------------------------------------------------------
(* Bounds of the explored inputs.                                          *)

MaxMsgLen == 2
MaxSecretLen == 2
MaxCustomLen == 3
MaxChain == 1
MaxMutations == 1

----------------------------------------------------------------------------
(* JavaScript values. A string is the sequence of its UTF-16 units, an     *)
(* array the sequence of its elements (each element a string, written as   *)
(* one TLA+ string).                                                       *)

Undef == [t |-> "undefined", v |-> <<>>]
Null == [t |-> "null", v |-> <<>>]
Func == [t |-> "function", v |-> <<>>]
Str(s) == [t |-> "string", v |-> s]
Arr(es) == [t |-> "array", v |-> es]
Num(n) == [t |-> "number", v |-> <<n>>]
Bool(b) == [t |-> "boolean", v |-> <<IF b THEN "true" ELSE "false">>]

\* ToBoolean, as `!x` and Boolean(x) apply it.
Truthy(x) ==
    CASE x.t \in {"undefined", "null"} -> FALSE
      [] x.t = "boolean" -> x.v = <<"true">>
      [] x.t = "string" -> x.v # <<>>
      [] x.t = "number" -> x.v # <<"0">>
      [] OTHER -> TRUE

\* `!x.length`: strings and arrays have a length, a function has its arity
\* (1 for the inherited ones used here), every other value has none.
NoLength(x) ==
    CASE x.t \in {"string", "array"} -> Len(x.v) = 0
      [] x.t = "function" -> FALSE
      [] OTHER -> TRUE

\* The UTF-16 units of an array element, as `+=` appends them.
Explode(e) ==
    CASE e = "ab" -> <<"a", "b">>
      [] e = "undefined" -> <<"u", "n", "d", "e", "f", "i", "n", "e", "d">>
      [] OTHER -> <<e>>

\* JavaScript's %: the sign of the result is the sign of the dividend.
JSMod(a, b) == IF a >= 0 THEN a % b ELSE 0 - ((0 - a) % b)

----------------------------------------------------------------------------
(* The alphabet tables of lines 13-23.                                     *)

\* index.js:14
alphanumeric ==
    << "a", "b", "c", "d", "e", "f", "g", "h", "i", "j", "k", "l", "m", "n",
       "o", "p", "q", "r", "s", "t", "u", "v", "w", "x", "y", "z", "A", "B",
       "C", "D", "E", "F", "G", "H", "I", "J", "K", "L", "M", "N", "O", "P",
       "Q", "R", "S", "T", "U", "V", "W", "X", "Y", "Z", "0", "1", "2", "3",
       "4", "5", "6", "7", "8", "9" >>

\* index.js:15
numbers ==
    << "0", "1", "2", "3", "4", "5", "6", "7", "8", "9" >>

\* index.js:16
lowercase ==
    << "a", "b", "c", "d", "e", "f", "g", "h", "i", "j", "k", "l", "m", "n",
       "o", "p", "q", "r", "s", "t", "u", "v", "w", "x", "y", "z" >>

\* index.js:17
uppercase ==
    << "A", "B", "C", "D", "E", "F", "G", "H", "I", "J", "K", "L", "M", "N",
       "O", "P", "Q", "R", "S", "T", "U", "V", "W", "X", "Y", "Z" >>

\* index.js:18
symbols ==
    << "!", "@", "#", "$", "%", "^", "&", "*", "(", ")", "_", "+", "-", "=",
       "[", "]", "{", "}", "|", ";", "'", ":", "\"", ",", ".", "/", "<", ">",
       "?" >>

\* index.js:20
ascii ==
    << "a", "b", "c", "d", "e", "f", "g", "h", "i", "j", "k", "l", "m", "n",
       "o", "p", "q", "r", "s", "t", "u", "v", "w", "x", "y", "z", "A", "B",
       "C", "D", "E", "F", "G", "H", "I", "J", "K", "L", "M", "N", "O", "P",
       "Q", "R", "S", "T", "U", "V", "W", "X", "Y", "Z", "0", "1", "2", "3",
       "4", "5", "6", "7", "8", "9", "!", "@", "#", "$", "%", "^", "&", "*",
       "(", ")", "_", "+", "-", "=", "[", "]", "{", "}", "|", ";", "'", ":",
       "\"", ",", ".", "/", "<", ">", "?", " " >>

\* index.js:21
base64 ==
    << "A", "B", "C", "D", "E", "F", "G", "H", "I", "J", "K", "L", "M", "N",
       "O", "P", "Q", "R", "S", "T", "U", "V", "W", "X", "Y", "Z", "a", "b",
       "c", "d", "e", "f", "g", "h", "i", "j", "k", "l", "m", "n", "o", "p",
       "q", "r", "s", "t", "u", "v", "w", "x", "y", "z", "0", "1", "2", "3",
       "4", "5", "6", "7", "8", "9", "+", "/", "=" >>

\* The keys of the characterTypes literal, in the order lines 14-22 write them
\* (the order Object.keys returns at line 28).
KeyOrder ==
    << "alphanumeric", "numbers", "lowercase", "uppercase", "symbols", "ascii",
       "base64", "custom" >>

Kinds == {KeyOrder[i] : i \in DOMAIN KeyOrder}

\* Property names every object literal inherits from Object.prototype.
Inherited == {"constructor", "toString", "valueOf", "hasOwnProperty"}

\* characterTypes[name], with characterTypes.custom holding `c`.
characterTypes(name, c) ==
    CASE name = "alphanumeric" -> Str(alphanumeric)
      [] name = "numbers" -> Str(numbers)
      [] name = "lowercase" -> Str(lowercase)
      [] name = "uppercase" -> Str(uppercase)
      [] name = "symbols" -> Str(symbols)
      [] name = "ascii" -> Str(ascii)
      [] name = "base64" -> Str(base64)
      [] name = "custom" -> c
      [] name \in Inherited -> Func
      [] OTHER -> Undef

----------------------------------------------------------------------------
(* Error texts of index.js; "" is a normal return.                         *)

InvalidTypeMsg == "Invalid character type. Available options are: "
MissingCharactersMsg == "Characters must be specified when using custom character type."
InvalidCharactersMsg == "Custom characters must be a non-empty string."
SecretMissingMsg == "Secret must be specified."
SecretEmptyMsg == "Secret must be a non-empty string."
SecretCharMsg == "Secret characters must contains only values from"
MessageMissingMsg == "Message must be specified."
MessageEmptyMsg == "Message must be a non-empty string."
MessageCharMsg == "Message characters must contains only values from"
\* The runtime's TypeError when characterTypes[options.type] has no indexOf
\* (undefined, or a value that is neither a string nor an array).
NoIndexOfMsg == "characterTypes[options.type].indexOf is not a function"

NoError == [msg |-> "", names |-> <<>>]

----------------------------------------------------------------------------
(* The constructor, lines 11-39.                                           *)

\* Lines 25-26: options.strict and options.type as the constructor rewrites them.
Normalised(o) ==
    [o EXCEPT !.strict = Bool(Truthy(o.strict)),
              !.type = IF o.type = "" THEN "base64" ELSE o.type]

\* Lines 27-38: what the constructor throws for the (normalised) options.
ConstructError(o) ==
    IF ~Truthy(characterTypes(o.type, o.characters))
    THEN [msg |-> InvalidTypeMsg, names |-> KeyOrder]
    ELSE IF o.type = "custom" /\ ~Truthy(o.characters)
    THEN [msg |-> MissingCharactersMsg, names |-> <<>>]
    ELSE IF o.type = "custom" /\ NoLength(o.characters)
    THEN [msg |-> InvalidCharactersMsg, names |-> <<>>]
    ELSE NoError

----------------------------------------------------------------------------
(* The validators, lines 42-64.                                            *)

\* String.prototype.indexOf / Array.prototype.indexOf of one UTF-16 unit:
\* the 0-based first occurrence, or -1.
IndexOf(u, ch) ==
    IF \E i \in DOMAIN u : u[i] = ch
    THEN (CHOOSE i \in DOMAIN u : u[i] = ch /\ \A j \in 1..(i - 1) : u[j] # ch) - 1
    ELSE -1

Ok == [msg |-> "", ch |-> ""]

\* The .every() walk of lines 46-51 and 58-63 over the units of `s` against
\* characterTypes[options.type] = u: throws at the leftmost unit not found.
CheckChars(s, u, text) ==
    IF s = <<>> THEN Ok
    ELSE IF u.t \notin {"string", "array"} THEN [msg |-> NoIndexOfMsg, ch |-> ""]
    ELSE IF \E i \in DOMAIN s : IndexOf(u.v, s[i]) = -1
    THEN LET i == CHOOSE k \in DOMAIN s :
                    /\ IndexOf(u.v, s[k]) = -1
                    /\ \A j \in 1..(k - 1) : IndexOf(u.v, s[j]) # -1
         IN  [msg |-> text, ch |-> s[i]]
    ELSE Ok

\* verifySecret without its walk over the characters.
verifySecret_PresenceOnly(secret, u) ==
    IF ~Truthy(secret) THEN [msg |-> SecretMissingMsg, ch |-> ""]
    ELSE IF NoLength(secret) THEN [msg |-> SecretEmptyMsg, ch |-> ""]
    ELSE Ok

\* Lines 42-52.
verifySecret(secret, u) ==
    IF ~Truthy(secret) THEN [msg |-> SecretMissingMsg, ch |-> ""]
    ELSE IF NoLength(secret) THEN [msg |-> SecretEmptyMsg, ch |-> ""]
    ELSE CheckChars(secret.v, u, SecretCharMsg)

\* verifyMessage without the early return of line 57.
verifyMessage_AlwaysStrict(message, strict, u) ==
    IF ~Truthy(message) THEN [msg |-> MessageMissingMsg, ch |-> ""]
    ELSE IF NoLength(message) THEN [msg |-> MessageEmptyMsg, ch |-> ""]
    ELSE CheckChars(message.v, u, MessageCharMsg)

\* Lines 54-64.
verifyMessage(message, strict, u) ==
    IF ~Truthy(message) THEN [msg |-> MessageMissingMsg, ch |-> ""]
    ELSE IF NoLength(message) THEN [msg |-> MessageEmptyMsg, ch |-> ""]
    ELSE IF ~Truthy(strict) THEN Ok
    ELSE CheckChars(message.v, u, MessageCharMsg)

----------------------------------------------------------------------------
(* The transform, lines 73-101.                                            *)

\* charMap[i]: the unit (or array element) at 0-based i, undefined beyond.
At(u, i) == IF i >= 0 /\ i < Len(u) THEN u[i + 1] ELSE "undefined"

\* The loop body with line 97 lacking `+ charMap.length`.
Step_NoWrap(message, secret, operation, charMap, i) ==
    LET messageLetter == message[i + 1]
        secretLetter == At(secret, JSMod(i, Len(secret)))
        x == IndexOf(charMap, secretLetter)
        y == IndexOf(charMap, messageLetter)
        L == Len(charMap)
    IN  IF IndexOf(charMap, messageLetter) = -1 THEN <<messageLetter>>
        ELSE IF operation = "encrypt"
        THEN Explode(At(charMap, JSMod(x + y, L)))
        ELSE Explode(At(charMap, JSMod(y - x, L)))

\* Lines 80-97: what one pass of the loop appends for 0-based position i.
Step(message, secret, operation, charMap, i) ==
    LET messageLetter == message[i + 1]
        secretLetter == At(secret, JSMod(i, Len(secret)))
        x == IndexOf(charMap, secretLetter)
        y == IndexOf(charMap, messageLetter)
        L == Len(charMap)
    IN  IF IndexOf(charMap, messageLetter) = -1 THEN <<messageLetter>>
        ELSE IF operation = "encrypt"
        THEN Explode(At(charMap, JSMod(x + y, L)))
        ELSE Explode(At(charMap, JSMod(y - x + L, L)))

\* Lines 79-98: encryptedMessage.value after the first n passes.
RECURSIVE Loop(_, _, _, _, _)
Loop(message, secret, operation, charMap, n) ==
    IF n = 0 THEN <<>>
    ELSE Loop(message, secret, operation, charMap, n - 1)
         \o Step(message, secret, operation, charMap, n - 1)

\* encryptOrDecrypt with lines 74 and 75 swapped.
encryptOrDecrypt_MessageFirst(message, secret, operation, o, c) ==
    LET u == characterTypes(o.type, c)
        vs == verifySecret(secret, u)
        vm == verifyMessage(message, o.strict, u)
    IN  IF vm.msg # ""
        THEN [msg |-> vm.msg, ch |-> vm.ch, out |-> <<>>, stage |-> "verifyMessage", steps |-> 0]
        ELSE IF vs.msg # ""
        THEN [msg |-> vs.msg, ch |-> vs.ch, out |-> <<>>, stage |-> "verifySecret", steps |-> 0]
        ELSE [msg |-> "", ch |-> "",
              out |-> Loop(message.v, secret.v, operation, u.v, Len(message.v)),
              stage |-> "return", steps |-> Len(message.v)]

\* Lines 73-101: the outcome of one call. msg/ch: the error thrown ("" for a
\* return); out: the string returned; stage: the statement the call ended in;
\* steps: passes of the loop that ran.
encryptOrDecrypt(message, secret, operation, o, c) ==
    LET u == characterTypes(o.type, c)
        vs == verifySecret(secret, u)
        vm == verifyMessage(message, o.strict, u)
    IN  IF vs.msg # ""
        THEN [msg |-> vs.msg, ch |-> vs.ch, out |-> <<>>, stage |-> "verifySecret", steps |-> 0]
        ELSE IF vm.msg # ""
        THEN [msg |-> vm.msg, ch |-> vm.ch, out |-> <<>>, stage |-> "verifyMessage", steps |-> 0]
        ELSE [msg |-> "", ch |-> "",
              out |-> Loop(message.v, secret.v, operation, u.v, Len(message.v)),
              stage |-> "return", steps |-> Len(message.v)]

----------------------------------------------------------------------------
(* Inputs.                                                                 *)

MessageSyms == {"b", "9", "~"}
SecretSyms == {"b", "9"}
CustomSyms == {"a", "b"}

StringsUpTo(S, n) == UNION {[1..k -> S] : k \in 0..n}

\* Message and secret arguments: left out, or a string (possibly empty).
Messages == {Undef} \cup {Str(s) : s \in StringsUpTo(MessageSyms, MaxMsgLen)}
Secrets == {Undef} \cup {Str(s) : s \in StringsUpTo(SecretSyms, MaxSecretLen)}

\* options.type: "" stands for a type left out (any falsy value takes the
\* branch of line 26), "invalid" for a name characterTypes does not have.
TypeInputs == Kinds \cup {"", "invalid", "constructor"}

\* options.characters: left out, null, a number, a string, an array of strings.
CharacterInputs ==
    {Undef, Null, Num("7")}
    \cup {Str(s) : s \in StringsUpTo(CustomSyms, MaxCustomLen)}
    \cup {Arr(<<>>), Arr(<<"ab">>), Arr(<<"a", "b">>), Arr(<<"a", "b", "ab">>)}

StrictInputs == {Undef, Bool(TRUE)}
DefaultSecretInputs == {Undef, Str(<<"b">>)}

\* options.characters is read only through characterTypes.custom (line 22), so
\* it is varied only together with type "custom".
OptionInputs ==
    {[type |-> t, strict |-> st, characters |-> c, secret |-> s] :
        t \in TypeInputs \ {"custom"}, st \in StrictInputs, c \in {Undef},
        s \in DefaultSecretInputs}
    \cup
    {[type |-> t, strict |-> st, characters |-> c, secret |-> s] :
        t \in {"custom"}, st \in StrictInputs, c \in CharacterInputs,
        s \in DefaultSecretInputs}

----------------------------------------------------------------------------
(* State machine.                                                          *)

NoConfig == [type |-> "", strict |-> Undef, universe |-> Undef, secret |-> Undef]
NoSource == [op |-> "none", message |-> Undef, key |-> Undef]
NoResult == [msg |-> "", ch |-> "", out |-> <<>>, stage |-> "none", steps |-> 0]
NoCall ==
    [op |-> "none", message |-> Undef, secret |-> Undef, key |-> Undef,
     config |-> NoConfig, result |-> NoResult, from |-> NoSource, depth |-> 0]

\* The configuration a call reads through `options` and `characterTypes`.
Config(o, c) ==
    [type |-> o.type, strict |-> o.strict,
     universe |-> characterTypes(o.type, c), secret |-> o.secret]

Init ==
    /\ given \in OptionInputs
    /\ argMessage \in Messages
    /\ argSecret \in Secrets
    /\ options = given
    /\ custom = Undef
    /\ secretValue = Null
    /\ engine = "none"
    /\ ctorError = NoError
    /\ built = NoConfig
    /\ last = NoCall
    /\ mutations = 0

\* new Vigenere(options), lines 11-39 and 124-125.
Construct ==
    /\ engine = "none"
    /\ LET o == Normalised(options)
           e == ConstructError(o)
       IN  /\ options' = o
           /\ custom' = options.characters
           /\ ctorError' = e
           /\ engine' = IF e = NoError THEN "built" ELSE "threw"
           /\ secretValue' = IF e = NoError /\ Truthy(o.secret) THEN o.secret ELSE Null
           /\ built' = IF e = NoError THEN Config(o, options.characters) ELSE NoConfig
    /\ UNCHANGED <<given, argMessage, argSecret, last, mutations>>

\* encode(message, secret) / decode(message, secret), lines 110-122: the
\* default parameter takes options.secret when the argument is undefined.
Call(operation, message, secret, from, depth) ==
    /\ engine = "built"
    /\ LET key == IF secret.t = "undefined" THEN options.secret ELSE secret
       IN  last' = [op |-> operation, message |-> message, secret |-> secret,
                    key |-> key, config |-> Config(options, custom),
                    result |-> encryptOrDecrypt(message, key, operation, options, custom),
                    from |-> from, depth |-> depth]
    /\ UNCHANGED <<given, argMessage, argSecret, options, custom, secretValue,
                   engine, ctorError, built, mutations>>

\* The caller passes the string the previous call returned, with the same secret.
FeedBack(operation) ==
    /\ last.op # "none"
    /\ last.result.msg = ""
    /\ last.depth < MaxChain
    /\ Call(operation, Str(last.result.out), last.secret,
            [op |-> last.op, message |-> last.message, key |-> last.key],
            last.depth + 1)

Encode ==
    \/ Call("encrypt", argMessage, argSecret, NoSource, 0)
    \/ FeedBack("encrypt")

Decode ==
    \/ Call("decrypt", argMessage, argSecret, NoSource, 0)
    \/ FeedBack("decrypt")

Next == Construct \/ Encode \/ Decode

Spec == Init /\ [][Next]_vars

----------------------------------------------------------------------------
(* The caller keeps the options record it passed and may write to it.      *)

AliasTypes == {"lowercase", "numbers", "custom", "invalid"}
AliasCharacters == {Str(<<"a", "b">>), Str(<<"b", "a">>)}
AliasSecrets == {Undef, Str(<<"b">>), Str(<<"9">>)}

MutateOptions ==
    /\ engine = "built"
    /\ mutations < MaxMutations
    /\ \/ \E t \in AliasTypes : options' = [options EXCEPT !.type = t]
       \/ \E b \in BOOLEAN : options' = [options EXCEPT !.strict = Bool(b)]
       \/ \E c \in AliasCharacters : options' = [options EXCEPT !.characters = c]
       \/ \E s \in AliasSecrets : options' = [options EXCEPT !.secret = s]
    /\ options' # options
    /\ mutations' = mutations + 1
    /\ UNCHANGED <<given, argMessage, argSecret, custom, secretValue, engine,
                   ctorError, built, last>>

InitAlias ==
    /\ Init
    /\ given.type \in {"lowercase", "custom"}
    /\ given.characters \in {Undef} \cup AliasCharacters

NextAlias == Construct \/ Encode \/ Decode \/ MutateOptions

SpecAlias == InitAlias /\ [][NextAlias]_vars

----------------------------------------------------------------------------
(* Vocabulary of the properties, stated apart from the engine's own        *)
(* lookups.                                                                *)

IsSeq(u) == u.t \in {"string", "array"}
Member(u, ch) == IsSeq(u) /\ \E i \in DOMAIN u.v : u.v[i] = ch
Outside(s, u) == {i \in DOMAIN s : ~Member(u, s[i])}
Min(S) == CHOOSE i \in S : \A j \in S : i <= j
Leftmost(s, u) == s[Min(Outside(s, u))]
\* 0-based first occurrence of a member.
First(u, ch) == Min({i \in DOMAIN u.v : u.v[i] = ch}) - 1
Distinct(u) == \A i, j \in DOMAIN u.v : u.v[i] = u.v[j] => i = j

NonEmptyString(x) == x.t = "string" /\ x.v # <<>>
\* A secret the spec calls valid: a non-empty string wholly inside the universe.
SecretValid(k, u) == NonEmptyString(k) /\ IsSeq(u) /\ Outside(k.v, u) = {}
\* Absent, empty, or holding a symbol outside the universe.
SecretInvalid(k, u) == ~NonEmptyString(k) \/ (IsSeq(u) /\ Outside(k.v, u) # {})
MessageInvalid(m, strict, u) ==
    ~NonEmptyString(m) \/ (Truthy(strict) /\ IsSeq(u) /\ Outside(m.v, u) # {})

Called == last.op # "none"
Returned == Called /\ last.result.msg = ""
Universe == last.config.universe
SecretErrors == {SecretMissingMsg, SecretEmptyMsg, SecretCharMsg}

\* The symbol the spec's transform puts at 1-based position i.
Expected(op, m, k, u, i) ==
    LET L == Len(u.v)
        x == First(u, k[((i - 1) % Len(k)) + 1])
        y == First(u, m[i])
    IN  IF ~Member(u, m[i]) THEN m[i]
        ELSE IF op = "encrypt" THEN u.v[((x + y) % L) + 1]
        ELSE u.v[((y - x + L) % L) + 1]

----------------------------------------------------------------------------
(* C1, as stated. Round trip: decoding what encode returned, with the same  *)
(* secret, on an engine whose universe is a string (built-in or custom,    *)
(* repeated symbols allowed), returns the original message.                *)
C1_RoundTrip ==
    (Called /\ last.op = "decrypt" /\ last.from.op = "encrypt" /\ Universe.t = "string")
        => (last.result.msg = "" /\ Str(last.result.out) = last.from.message)

(* C1, amended. Round trip on every engine whose universe is a string      *)
(* without a repeated symbol (every built-in kind, and every such custom   *)
(* string): decoding what encode returned, with the same secret, returns   *)
(* the original message.                                                   *)
C1_RoundTripDistinct ==
    (Called /\ last.op = "decrypt" /\ last.from.op = "encrypt"
        /\ Universe.t = "string" /\ Distinct(Universe))
        => (last.result.msg = "" /\ Str(last.result.out) = last.from.message)

\* A lenient round trip of a two-symbol message whose first symbol passes
\* through and whose second is shifted by the second unit of the key, the
\* decode step wrapping below index 0.
C1_Witness ==
    /\ Called
    /\ last.op = "decrypt"
    /\ last.from.op = "encrypt"
    /\ Universe.t = "string"
    /\ Distinct(Universe)
    /\ last.result.msg = ""
    /\ Len(last.from.message.v) = 2
    /\ Outside(last.from.message.v, Universe) = {1}
    /\ Len(last.key.v) = 2
    /\ last.key.v[1] # last.key.v[2]
    /\ last.message # last.from.message
    /\ First(Universe, last.message.v[2]) < First(Universe, last.key.v[2])
    /\ Str(last.result.out) = last.from.message

(* C2. Per-position transform: in every call that returned, position i of  *)
(* the result is message[i] when message[i] is outside the universe, else  *)
(* universe[(x + y) mod L] (encode) or universe[(y - x + L) mod L]         *)
(* (decode), x and y first-occurrence indices, the key unit taken at the   *)
(* absolute index i mod len(secret).                                       *)
C2_PerPosition ==
    Returned =>
        \A i \in DOMAIN last.message.v :
            /\ i \in DOMAIN last.result.out
            /\ last.result.out[i] =
                   Expected(last.op, last.message.v, last.key.v, Universe, i)

\* C2 restricted to engines whose universe is a string.
PerPositionOnStringUniverse ==
    (Returned /\ Universe.t = "string") =>
        /\ Len(last.result.out) = Len(last.message.v)
        /\ \A i \in DOMAIN last.message.v :
               last.result.out[i] =
                   Expected(last.op, last.message.v, last.key.v, Universe, i)

(* C3. Strict-mode rejection: with a valid secret and a message holding a  *)
(* symbol outside the universe, a strict engine throws the message-        *)
(* character error naming the leftmost such symbol and returns nothing; a  *)
(* lenient engine raises no error for it.                                  *)
C3_StrictRejection ==
    (Called /\ SecretValid(last.key, Universe) /\ NonEmptyString(last.message)
        /\ Outside(last.message.v, Universe) # {})
        => IF Truthy(last.config.strict)
           THEN /\ last.result.msg = MessageCharMsg
                /\ last.result.ch = Leftmost(last.message.v, Universe)
                /\ last.result.out = <<>>
                /\ last.result.steps = 0
           ELSE last.result.msg = ""

\* C3's case: a strict call rejected at its first symbol although the second, a different
\* symbol, is outside the universe too.
C3_Witness ==
    /\ Called
    /\ SecretValid(last.key, Universe)
    /\ Truthy(last.config.strict)
    /\ Len(last.message.v) = 2
    /\ Outside(last.message.v, Universe) = {1, 2}
    /\ last.message.v[1] # last.message.v[2]
    /\ last.result.msg = MessageCharMsg
    /\ last.result.ch = last.message.v[1]

(* C4. Secret validity is unconditional: whatever the strict flag and the  *)
(* operation, a non-empty secret holding a symbol outside the universe     *)
(* makes the call throw the secret-character error naming the leftmost     *)
(* such symbol, and nothing is returned.                                   *)
C4_SecretUnconditional ==
    (Called /\ NonEmptyString(last.key) /\ IsSeq(Universe)
        /\ Outside(last.key.v, Universe) # {})
        => /\ last.result.msg = SecretCharMsg
           /\ last.result.ch = Leftmost(last.key.v, Universe)
           /\ last.result.out = <<>>
           /\ last.result.steps = 0

\* C4's case: a lenient decode, with a message that is itself fine, refused for the second
\* symbol of its secret.
C4_Witness ==
    /\ Called
    /\ last.op = "decrypt"
    /\ ~Truthy(last.config.strict)
    /\ NonEmptyString(last.message)
    /\ Outside(last.message.v, Universe) = {}
    /\ Len(last.key.v) = 2
    /\ Outside(last.key.v, Universe) = {2}
    /\ last.result.msg = SecretCharMsg
    /\ last.result.ch = last.key.v[2]

(* C5. Construction with a type that is none of the eight kinds throws the *)
(* invalid-type error, whose text lists the kinds in the order numbers,    *)
(* custom, lowercase, uppercase, symbols, base64, alphanumeric, ascii.     *)
ExpectedKindOrder ==
    << "numbers", "custom", "lowercase", "uppercase", "symbols", "base64",
       "alphanumeric", "ascii" >>

C5_InvalidTypeListsKinds ==
    (engine = "threw" /\ given.type \notin Kinds \cup {""})
        => /\ ctorError.msg = InvalidTypeMsg
           /\ ctorError.names = ExpectedKindOrder

\* C5's first half alone: every type outside the eight kinds is refused.
UnknownTypeRefused ==
    (engine # "none" /\ given.type \notin Kinds \cup {""}) => engine = "threw"

(* C6. Construction with type custom and characters absent, null or empty  *)
(* throws the missing-characters error.                                    *)
C6_MissingCharacters ==
    (engine # "none" /\ given.type = "custom"
        /\ given.characters \in {Undef, Null, Str(<<>>)})
        => /\ engine = "threw"
           /\ ctorError.msg = MissingCharactersMsg

(* C7. Construction with type custom and characters given as a value that  *)
(* is not a string throws the invalid-characters error, so no engine has a *)
(* custom universe that is not a string.                                   *)
C7_NonStringRejected ==
    /\ (engine # "none" /\ given.type = "custom"
           /\ given.characters.t \notin {"undefined", "null", "string"})
          => /\ engine = "threw"
             /\ ctorError.msg = InvalidCharactersMsg
    /\ (engine = "built" /\ built.type = "custom") => built.universe.t = "string"

(* C8. The configuration is fixed at construction: whatever happened since, *)
(* the outcome of a call is the one its arguments have under the kind,     *)
(* universe, strict flag and default secret the constructor left.          *)
C8_ConfigFixed ==
    Called =>
        LET o == [options EXCEPT !.type = built.type, !.strict = built.strict,
                                 !.secret = built.secret]
            key == IF last.secret.t = "undefined" THEN built.secret ELSE last.secret
        IN  last.result = encryptOrDecrypt(last.message, key, last.op, o, custom)

\* C8's first half alone: a call reads the configuration the constructor left.
ConfigReadIsBuilt == Called => last.config = built

(* C9. Valid input is accepted: a valid secret and a non-empty message     *)
(* (wholly inside the universe when strict) make the call return a string  *)
(* of the message's length whose positions holding an in-universe message  *)
(* symbol hold an in-universe symbol.                                      *)
C9_ValidAccepted ==
    (Called /\ SecretValid(last.key, Universe)
        /\ ~MessageInvalid(last.message, last.config.strict, Universe))
        => /\ last.result.msg = ""
           /\ Len(last.result.out) = Len(last.message.v)
           /\ \A i \in DOMAIN last.message.v :
                  Member(Universe, last.message.v[i])
                      => Member(Universe, last.result.out[i])

\* C9 restricted to engines whose universe is a string.
ValidAcceptedOnStringUniverse ==
    (Called /\ Universe.t = "string" /\ SecretValid(last.key, Universe)
        /\ ~MessageInvalid(last.message, last.config.strict, Universe))
        => /\ last.result.msg = ""
           /\ Len(last.result.out) = Len(last.message.v)
           /\ \A i \in DOMAIN last.message.v :
                  Member(Universe, last.message.v[i])
                      => Member(Universe, last.result.out[i])

(* C10. Validation order: when secret and message are both invalid the     *)
(* error is the secret's, and no pass of the transform runs unless both    *)
(* validations passed.                                                     *)
C10_SecretBeforeMessage ==
    Called =>
        /\ (SecretInvalid(last.key, Universe)
              /\ MessageInvalid(last.message, last.config.strict, Universe))
             => /\ last.result.msg \in SecretErrors
                /\ last.result.stage = "verifySecret"
        /\ (last.result.steps > 0 \/ last.result.out # <<>>)
             => /\ ~SecretInvalid(last.key, Universe)
                /\ ~MessageInvalid(last.message, last.config.strict, Universe)
        /\ last.result.msg # "" => (last.result.steps = 0 /\ last.result.out = <<>>)

\* C10's case: a strict call whose secret and message both hold a symbol outside the
\* universe: the secret's symbol is the one reported.
C10_Witness ==
    /\ Called
    /\ Truthy(last.config.strict)
    /\ NonEmptyString(last.key)
    /\ NonEmptyString(last.message)
    /\ IsSeq(Universe)
    /\ Outside(last.key.v, Universe) # {}
    /\ Outside(last.message.v, Universe) # {}
    /\ Leftmost(last.key.v, Universe) # Leftmost(last.message.v, Universe)
    /\ last.result.msg = SecretCharMsg
    /\ last.result.ch = Leftmost(last.key.v, Universe)

====
